---- MODULE Spec2Model ----
(***************************************************************************)
(* Model of the voice tally counter's recognition core: the hook           *)
(* useSpeechRecognition (session state machine, restart timers, dedupe of  *)
(* final results, visibility supervisor, reconfiguration, teardown) and    *)
(* the text normalizer it uses.  The speech-recognition provider is the    *)
(* browser's; it is modelled as an environment that accepts or rejects     *)
(* start/stop/abort and emits start, speech, result, error and end events. *)
(*                                                                         *)
(* Every handler runs to completion (single-threaded event loop), so each  *)
(* handler, timer callback and caller operation is one action.  Handlers   *)
(* are written as operators from a state record to a state record, exactly *)
(* in the order of the source's statements; an action applies one of them  *)
(* to the current state.                                                   *)
(***************************************************************************)
EXTENDS Integers, Sequences, FiniteSets, TLC

(***************************************************************************)
(* Program constants (RECOGNITION_CONFIG) and fixed delays.                *)
(***************************************************************************)
RESTART_DELAY == 50
MAX_RESTART_ATTEMPTS == 10
RESTART_BACKOFF_MS == 500
DEBOUNCE_MS == 300
RESTART_FN_DELAY == 300
RECONFIG_DELAY == 100
DHIKR_CHANGE_DELAY == 200

(***************************************************************************)
(* Bounds of the model.                                                    *)
(***************************************************************************)
\* most restart timers pending at once (tracked one plus orphans)
MaxPending == 2
\* most delayed start() timers (restart(), reconfiguration) pending at once
MaxDelayed == 1
\* most provider instances ever created (the first plus reconfigurations)
MaxInst == 2
\* length of a provider result batch
MaxBatch == 2
\* clock ticks (of TickMs each) after the epoch
MaxTicks == 5
\* automatic provider start calls counted by the history counter autoStarts
\* beyond the restart budget
MaxOver == 1

\* longest transcript and longest target phrase drawn from the alphabets
MaxTextLen == 4
MaxTargetLen == 2
\* most copies of a phrase in a transcript of repetitions
MaxReps == 3
\* most tokens of a long target phrase
MaxTokens == 5
\* where the match counter of a countOccurrences call stops being told apart
MaxMatches == 12
\* longest string given to the normalizer on its own
MaxNormLen == 3
\* the lifetime total up to which results are counted
MaxCount == 3

\* the clock's granularity and its first reading (Date.now() is far above
\* 2 * DEBOUNCE_MS on any host)
TickMs == 150
Epoch == 1000

(***************************************************************************)
(* Text.  A string is a sequence of characters; Arabic characters are      *)
(* written by name.                                                        *)
(***************************************************************************)
\* first replace: tanwin, short vowels, shadda, sukun, tatweel are removed
Diacritics ==
    {"FATHATAN", "DAMMATAN", "KASRATAN", "FATHA", "DAMMA", "KASRA",
     "SHADDA", "SUKUN", "TATWEEL"}
\* second replace: the alef forms folded to bare alef
AlefForms == {"ALEF_HAMZA_BELOW", "ALEF_HAMZA_ABOVE", "ALEF_MADDA", "ALEF"}
\* the punctuation and quotation class, replaced by a space
Punctuation ==
    {".", ",", "!", "?", "ARABIC_SEMICOLON", "ARABIC_QUESTION", "\"", "'",
     "(", ")", "LAQUO", "RAQUO", "ARABIC_COMMA"}
\* characters matched by \s (and removed by trim)
Whitespace == {" ", "\t", "\n"}

\* one character through the per-character replacements of normalizeArabic,
\* in the source's order; the result is a string of length 0 or 1
FoldChar(c) ==
    IF c \in Diacritics THEN << >>
    ELSE IF c \in AlefForms THEN <<"ALEF">>
    ELSE IF c = "ALEF_MAKSURA" THEN <<"YEH">>
    ELSE IF c = "WAW_HAMZA" THEN <<"WAW">>
    ELSE IF c = "YEH_HAMZA" THEN <<"YEH">>
    ELSE IF c = "TEH_MARBUTA" THEN <<"HEH">>
    ELSE IF c \in Punctuation THEN <<" ">>
    ELSE <<c>>

RECURSIVE FoldAll(_)
FoldAll(t) == IF t = << >> THEN << >> ELSE FoldChar(Head(t)) \o FoldAll(Tail(t))

\* .replace(/\s+/g, " ")
RECURSIVE CollapseWhitespace(_)
CollapseWhitespace(t) ==
    IF t = << >> THEN << >>
    ELSE IF Head(t) \in Whitespace
         THEN IF Len(t) > 1 /\ t[2] \in Whitespace
              THEN CollapseWhitespace(Tail(t))
              ELSE <<" ">> \o CollapseWhitespace(Tail(t))
         ELSE <<Head(t)>> \o CollapseWhitespace(Tail(t))

\* String.prototype.trim
RECURSIVE TrimLeft(_)
TrimLeft(t) ==
    IF t # << >> /\ Head(t) \in Whitespace THEN TrimLeft(Tail(t)) ELSE t

RECURSIVE TrimRight(_)
TrimRight(t) ==
    IF t # << >> /\ t[Len(t)] \in Whitespace
    THEN TrimRight(SubSeq(t, 1, Len(t) - 1))
    ELSE t

Trim(t) == TrimRight(TrimLeft(t))

\* String.prototype.toLowerCase on the cased letters of the model's alphabet
LowerChar(c) ==
    IF c = "A" THEN "a" ELSE IF c = "B" THEN "b" ELSE c

RECURSIVE ToLowerCase(_)
ToLowerCase(t) ==
    IF t = << >> THEN << >>
    ELSE <<LowerChar(Head(t))>> \o ToLowerCase(Tail(t))

\* the normalizer trimming first
normalizeArabic_TrimFirst(text) ==
    ToLowerCase(CollapseWhitespace(FoldAll(Trim(text))))

normalizeArabic(text) == ToLowerCase(Trim(CollapseWhitespace(FoldAll(text))))

\* str.split(" ").filter(Boolean): the maximal runs of characters other than
\* the space
RECURSIVE SplitFrom(_, _)
SplitFrom(t, word) ==
    IF t = << >> THEN (IF word = << >> THEN << >> ELSE <<word>>)
    ELSE IF Head(t) = " "
         THEN (IF word = << >> THEN << >> ELSE <<word>>) \o SplitFrom(Tail(t), << >>)
         ELSE SplitFrom(Tail(t), Append(word, Head(t)))

Split(t) == SplitFrom(t, << >>)

\* String.prototype.includes
includes(w, word) ==
    \E i \in 0..(Len(w) - Len(word)) : SubSeq(w, i + 1, i + Len(word)) = word

\* String.prototype.indexOf(target, pos), 0-based, -1 when there is no match;
\* the position is clamped to the length of the string
indexOf(t, target, pos) ==
    LET from == IF pos > Len(t) THEN Len(t) ELSE pos
        found == {i \in from..(Len(t) - Len(target)) :
                     SubSeq(t, i + 1, i + Len(target)) = target}
    IN  IF found = {} THEN -1
        ELSE CHOOSE i \in found : \A j \in found : i <= j

\* calculateSimilarity, as the fraction matches / words2.length
calculateSimilarity(str1, str2) ==
    LET words1 == Split(str1)
        words2 == Split(str2)
        matches ==
            Cardinality({k \in DOMAIN words2 :
                \E j \in DOMAIN words1 :
                    includes(words1[j], words2[k]) \/ includes(words2[k], words1[j])})
    IN  IF Len(words2) = 0 THEN [num |-> 0, den |-> 1]
        ELSE [num |-> matches, den |-> Len(words2)]

\* similarity >= 0.6
AboveThreshold_AtLeast(similarity) == 10 * similarity.num >= 6 * similarity.den

\* similarity > 0.6 (no fraction of small integers other than 0.6 itself
\* rounds to the double 0.6)
AboveThreshold(similarity) == 10 * similarity.num > 6 * similarity.den

\* the loop's step past a match, and the same advancing by one character
NextPos_ByOne(index, normalizedTarget) == index + 1

NextPos(index, normalizedTarget) == index + Len(normalizedTarget)

\* the while (true) loop of countOccurrences, from pos and count on
RECURSIVE countMatches(_, _, _, _)
countMatches(normalizedText, normalizedTarget, pos, count) ==
    LET index == indexOf(normalizedText, normalizedTarget, pos)
    IN  IF index = -1 THEN count
        ELSE countMatches(normalizedText, normalizedTarget,
                          NextPos(index, normalizedTarget), count + 1)

\* the value countOccurrences(text, target) returns, for a target whose
\* normalized form is not empty
countOccurrencesOf(text, target) ==
    IF target = << >> \/ text = << >> THEN 0
    ELSE LET normalizedText == normalizeArabic(text)
             normalizedTarget == normalizeArabic(target)
             targetWords == Split(normalizedTarget)
         IN  IF Len(targetWords) <= 3
             THEN countMatches(normalizedText, normalizedTarget, 0, 0)
             ELSE IF AboveThreshold(calculateSimilarity(
                         normalizedText, normalizedTarget))
                  THEN 1 ELSE 0


(***************************************************************************)
(* State.                                                                  *)
(***************************************************************************)
VARIABLES
    mounted,                \* useState mounted
    unmounted,              \* the hook's teardown effect has run
    apiAvailable,           \* window.SpeechRecognition || webkitSpeechRecognition
    visible,                \* document.visibilityState = "visible"
    language,               \* the hook's language parameter
    status,                 \* useState status
    error,                  \* useState error (errorMessage)
    interimTranscript,      \* useState interimTranscript
    recognitionRef,         \* 0 is null, else the instance's number
    isListeningRef,         \* listening-intent
    restartAttemptsRef,
    restartTimeoutRef,      \* "null", "pending" (an unfired timer) or "fired"
    orphanTimers,           \* unfired restart timers restartTimeoutRef lost
    delayedStarts,          \* unfired setTimeout(start, ...), by the value of
                            \* `supported` the scheduled start closed over
    processedTranscriptsRef,
    lastProcessedTimeRef,
    now,                    \* Date.now()
    prov,                   \* provider: state of each instance
    instLang,               \* provider: lang each instance was created with
    step,                   \* history: what the last handler did
    stopped,                \* history: caller stop()/teardown, no caller
                            \* start()/restart() since
    stopPendingTimer,       \* history: as stopped, for a stop() that found a
                            \* restart timer pending
    exhausted,              \* history: restart budget exhausted, no start() since
    autoStarts,             \* history: provider start calls made by restart
                            \* timers since start() / the last start event
    lastFinal,              \* history: the last non-empty final result entry
    acceptedAt,             \* history: when each normalized text was last
                            \* handed to the handler (0: never)
    selectedDhikr,          \* VoiceSubha: selectedDhikrRef.current.arabic
    sessionCount,           \* VoiceSubha: useState sessionCount
    totalCount,             \* VoiceSubha: stats.totalCount
    call,                   \* the frame of a countOccurrences call: its
                            \* arguments, locals, position and return value
    normCall                \* normalizeArabic called on a string and on what
                            \* it returned

vars ==
    <<mounted, unmounted, apiAvailable, visible, language, status, error,
      interimTranscript, recognitionRef, isListeningRef, restartAttemptsRef,
      restartTimeoutRef, orphanTimers, delayedStarts, processedTranscriptsRef,
      lastProcessedTimeRef, now, prov, instLang, step, stopped,
      stopPendingTimer, exhausted, autoStarts, lastFinal, acceptedAt,
      selectedDhikr, sessionCount, totalCount, call, normCall>>

\* the hook's variables
hookVars ==
    <<mounted, unmounted, apiAvailable, visible, language, status, error,
      interimTranscript, recognitionRef, isListeningRef, restartAttemptsRef,
      restartTimeoutRef, orphanTimers, delayedStarts, processedTranscriptsRef,
      lastProcessedTimeRef, now, prov, instLang, step, stopped,
      stopPendingTimer, exhausted, autoStarts, lastFinal, acceptedAt,
      selectedDhikr, sessionCount, totalCount>>

\* no countOccurrences call
NoCall ==
    [pc |-> "idle", text |-> << >>, target |-> << >>, normalizedText |-> << >>,
     normalizedTarget |-> << >>, pos |-> 0, count |-> 0, result |-> -1]

\* no normalizeArabic call
NoNorm == [pc |-> "idle", x |-> << >>, once |-> << >>, twice |-> << >>]

RecognitionStatus ==
    {"idle", "starting", "listening", "processing", "error", "paused"}

ErrorCodes ==
    {"network", "not-allowed", "service-not-allowed", "no-speech", "aborted",
     "audio-capture", "language-not-supported"}

\* a second code the switch of onerror has no case for
MoreErrorCodes == ErrorCodes \cup {"bad-grammar"}

\* "خطأ: " + event.error
GenericMessage(code) ==
    CASE code = "language-not-supported" -> "ERR_GENERIC language-not-supported"
      [] code = "bad-grammar" -> "ERR_GENERIC bad-grammar"
      [] OTHER -> "ERR_GENERIC"

Languages == {"ar-EG", "ar-SA"}

Instances == 1..MaxInst

\* provider instance states: "none" (not created), "inactive", "starting"
\* (start accepted, start event not yet delivered), "running", "stoppingEarly"
\* (stopped before its start event was delivered), "stopping" (stopped while
\* running: queued events may still arrive), "ending" (error event delivered,
\* end event due), "closing" (aborted, or stopped while ending: end event due)
ProviderStates ==
    {"none", "inactive", "starting", "running", "stoppingEarly", "stopping",
     "ending", "closing"}

\* no result event
NoEvent == [resultIndex |-> 1, results |-> << >>]

NoStep(name) ==
    [op |-> name, provStart |-> "none", delivered |-> << >>, judged |-> << >>,
     scheduled |-> 0, unsupported |-> FALSE, code |-> "none", delay |-> 0,
     event |-> NoEvent, startDelay |-> 0]

\* no final result since start(); otherwise the last non-empty final entry's
\* normalized text, its arrival time and whether the handler was called for it
NoFinal == [any |-> FALSE, norm |-> << >>, at |-> 0, accepted |-> FALSE]

\* the normalized texts the provider's final entries can have
FinalTexts == {<<"ALEF", "HEH">>, <<"a">>}

\* the phrase of DEFAULT_DHIKR_LIST[0], and the phrases to select from
DefaultDhikr == <<"a">>
DhikrPhrases == {DefaultDhikr, <<"ALEF_HAMZA_ABOVE", "HEH">>}

\* the current state as a record
St ==
    [mounted |-> mounted, unmounted |-> unmounted, apiAvailable |-> apiAvailable,
     visible |-> visible, language |-> language, status |-> status,
     error |-> error, interimTranscript |-> interimTranscript,
     recognitionRef |-> recognitionRef, isListeningRef |-> isListeningRef,
     restartAttemptsRef |-> restartAttemptsRef,
     restartTimeoutRef |-> restartTimeoutRef, orphanTimers |-> orphanTimers,
     delayedStarts |-> delayedStarts,
     processedTranscriptsRef |-> processedTranscriptsRef,
     lastProcessedTimeRef |-> lastProcessedTimeRef, now |-> now, prov |-> prov,
     instLang |-> instLang, step |-> step, stopped |-> stopped,
     stopPendingTimer |-> stopPendingTimer,
     exhausted |-> exhausted, autoStarts |-> autoStarts, lastFinal |-> lastFinal,
     acceptedAt |-> acceptedAt, selectedDhikr |-> selectedDhikr,
     sessionCount |-> sessionCount, totalCount |-> totalCount]

\* number of scheduled-but-unfired restart timers
PendingOf(s) == s.orphanTimers + (IF s.restartTimeoutRef = "pending" THEN 1 ELSE 0)

DelayedOf(s) == s.delayedStarts[TRUE] + s.delayedStarts[FALSE]

CreatedOf(s) == Cardinality({i \in Instances : s.prov[i] # "none"})

\* the successor state is r, within the model's bounds
ApplyRec(r) ==
    /\ PendingOf(r) <= MaxPending
    /\ DelayedOf(r) <= MaxDelayed
    /\ mounted' = r.mounted
    /\ unmounted' = r.unmounted
    /\ apiAvailable' = r.apiAvailable
    /\ visible' = r.visible
    /\ language' = r.language
    /\ status' = r.status
    /\ error' = r.error
    /\ interimTranscript' = r.interimTranscript
    /\ recognitionRef' = r.recognitionRef
    /\ isListeningRef' = r.isListeningRef
    /\ restartAttemptsRef' = r.restartAttemptsRef
    /\ restartTimeoutRef' = r.restartTimeoutRef
    /\ orphanTimers' = r.orphanTimers
    /\ delayedStarts' = r.delayedStarts
    /\ processedTranscriptsRef' = r.processedTranscriptsRef
    /\ lastProcessedTimeRef' = r.lastProcessedTimeRef
    /\ now' = r.now
    /\ prov' = r.prov
    /\ instLang' = r.instLang
    /\ step' = r.step
    /\ stopped' = r.stopped
    /\ stopPendingTimer' = r.stopPendingTimer
    /\ exhausted' = r.exhausted
    /\ autoStarts' = r.autoStarts
    /\ lastFinal' = r.lastFinal
    /\ acceptedAt' = r.acceptedAt
    /\ selectedDhikr' = r.selectedDhikr
    /\ sessionCount' = r.sessionCount
    /\ totalCount' = r.totalCount
    /\ call' = call
    /\ normCall' = normCall

\* apply a handler's result (computed once)
Apply(x) == \E r \in {x} : ApplyRec(r)

HookInit ==
    /\ mounted = FALSE
    /\ unmounted = FALSE
    /\ apiAvailable \in BOOLEAN
    /\ visible = TRUE
    /\ language = "ar-EG"
    /\ status = "idle"
    /\ error = "null"
    /\ interimTranscript = << >>
    /\ recognitionRef = 0
    /\ isListeningRef = FALSE
    /\ restartAttemptsRef = 0
    /\ restartTimeoutRef = "null"
    /\ orphanTimers = 0
    /\ delayedStarts = [b \in BOOLEAN |-> 0]
    /\ processedTranscriptsRef = {}
    /\ lastProcessedTimeRef = 0
    /\ now = Epoch
    /\ prov = [i \in Instances |-> "none"]
    /\ instLang = [i \in Instances |-> "none"]
    /\ step = NoStep("Init")
    /\ stopped = FALSE
    /\ stopPendingTimer = FALSE
    /\ exhausted = FALSE
    /\ autoStarts = 0
    /\ lastFinal = NoFinal
    /\ acceptedAt = [n \in FinalTexts |-> 0]
    /\ selectedDhikr = DefaultDhikr
    /\ sessionCount = 0
    /\ totalCount = 0

Init == HookInit /\ call = NoCall /\ normCall = NoNorm


(***************************************************************************)
(* The hook's functions, as operators on the state record.                 *)
(***************************************************************************)
\* React drops state updates of an unmounted component
setStatus(s, v) == IF s.unmounted THEN s ELSE [s EXCEPT !.status = v]
setError(s, v) == IF s.unmounted THEN s ELSE [s EXCEPT !.error = v]
setInterimTranscript(s, v) ==
    IF s.unmounted THEN s ELSE [s EXCEPT !.interimTranscript = v]

supported(s) == s.mounted /\ s.apiAvailable

Min(a, b) == IF a < b THEN a ELSE b

\* cleanup: clearTimeout of the timer restartTimeoutRef names (of no effect
\* once that timer has fired), then null
cleanup(s) ==
    IF s.restartTimeoutRef # "null"
    THEN [s EXCEPT !.restartTimeoutRef = "null"]
    ELSE s

\* the provider's answer to a start() call on the current instance
StartOutcomes(s) ==
    IF s.recognitionRef = 0 THEN {"none"}
    ELSE IF s.prov[s.recognitionRef] = "inactive" THEN {"ok", "OtherError"}
    ELSE {"InvalidStateError"}

\* recognitionRef.current.start(): accepted, or throws `outcome`
providerStart(s, outcome) ==
    IF outcome = "ok"
    THEN [s EXCEPT !.prov[s.recognitionRef] = "starting", !.step.provStart = "ok"]
    ELSE [s EXCEPT !.step.provStart = outcome]

\* recognition.stop()
providerStop(s, i) ==
    [s EXCEPT !.prov[i] =
        IF @ = "starting" THEN "stoppingEarly"
        ELSE IF @ = "running" THEN "stopping"
        ELSE IF @ = "ending" THEN "closing"
        ELSE @]

\* recognition.abort()
providerAbort(s, i) ==
    [s EXCEPT !.prov[i] = IF @ \in {"none", "inactive"} THEN @ ELSE "closing"]

\* the delay scheduleRestart computes
RestartDelayOf(attempts) == RESTART_DELAY + attempts * RESTART_BACKOFF_MS

\* scheduleRestart leaving the counter alone when the budget is exhausted
scheduleRestart_KeepsCount(s) ==
    IF ~s.isListeningRef THEN s
    ELSE IF s.restartAttemptsRef >= MAX_RESTART_ATTEMPTS
    THEN [setStatus(setError(s, "ERR_RESTART_FAILED"), "error") EXCEPT
            !.exhausted = TRUE]
    ELSE [s EXCEPT
            !.orphanTimers = IF s.restartTimeoutRef = "pending" THEN @ + 1 ELSE @,
            !.restartTimeoutRef = "pending",
            !.step.scheduled = @ + 1,
            !.step.delay = RestartDelayOf(s.restartAttemptsRef)]

\* scheduleRestart, up to the setTimeout: the new timer's id overwrites
\* restartTimeoutRef, and a timer it named that has not fired stays scheduled
scheduleRestart(s) ==
    IF ~s.isListeningRef THEN s
    ELSE IF s.restartAttemptsRef >= MAX_RESTART_ATTEMPTS
    THEN [setStatus(setError(s, "ERR_RESTART_FAILED"), "error") EXCEPT
            !.restartAttemptsRef = 0,
            !.exhausted = TRUE]
    ELSE [s EXCEPT
            !.orphanTimers = IF s.restartTimeoutRef = "pending" THEN @ + 1 ELSE @,
            !.restartTimeoutRef = "pending",
            !.step.scheduled = @ + 1,
            !.step.delay = RestartDelayOf(s.restartAttemptsRef)]

\* the callback scheduleRestart hands to setTimeout
restartTimerCallback(s, outcome) ==
    IF s.isListeningRef /\ s.recognitionRef # 0
    THEN LET called == providerStart(s, outcome)
         IN  IF outcome = "ok"
             THEN [called EXCEPT !.restartAttemptsRef = @ + 1]
             ELSE scheduleRestart(called)
    ELSE s

\* createRecognition and the part of setupRecognition that stores the new
\* instance (the handlers it installs are the Provider... actions below)
setupRecognition(s) ==
    IF ~s.mounted \/ ~s.apiAvailable THEN s
    ELSE LET i == CreatedOf(s) + 1
         IN  [s EXCEPT !.prov[i] = "inactive",
                       !.instLang[i] = s.language,
                       !.recognitionRef = i]

\* start, past its `supported` test, surfacing every exception of the
\* provider's start
startSupported_Surfacing(s, outcome) ==
    LET s1 == [cleanup(s) EXCEPT
                  !.isListeningRef = TRUE,
                  !.restartAttemptsRef = 0,
                  !.processedTranscriptsRef = {},
                  !.lastProcessedTimeRef = 0,
                  !.exhausted = FALSE,
                  !.autoStarts = 0,
                  !.lastFinal = NoFinal]
        s2 == IF s1.recognitionRef = 0 THEN setupRecognition(s1) ELSE s1
    IN  IF s2.recognitionRef # 0
        THEN LET s3 == providerStart(setStatus(s2, "starting"), outcome)
             IN  IF outcome # "ok"
                 THEN setError(s3, "ERR_START_FAILED")
                 ELSE s3
        ELSE s2

\* start, past its `supported` test
startSupported(s, outcome) ==
    LET s1 == [cleanup(s) EXCEPT
                  !.isListeningRef = TRUE,
                  !.restartAttemptsRef = 0,
                  !.processedTranscriptsRef = {},
                  !.lastProcessedTimeRef = 0,
                  !.exhausted = FALSE,
                  !.autoStarts = 0,
                  !.lastFinal = NoFinal]
        s2 == IF s1.recognitionRef = 0 THEN setupRecognition(s1) ELSE s1
    IN  IF s2.recognitionRef # 0
        THEN LET s3 == providerStart(setStatus(s2, "starting"), outcome)
             IN  IF outcome = "OtherError"
                 THEN setError(s3, "ERR_START_FAILED")
                 ELSE s3
        ELSE s2

\* start without its `supported` test
start_Unguarded(s, sup, outcome) ==
    [startSupported(s, outcome) EXCEPT !.step.unsupported = ~sup]

\* start, called with the value `sup` of `supported` it closed over
start(s, sup, outcome) ==
    IF ~sup
    THEN [setError(s, "ERR_UNSUPPORTED") EXCEPT !.step.unsupported = TRUE]
    ELSE startSupported(s, outcome)

\* the outcomes start's provider call can have: on the instance start finds
\* or creates
StartCallOutcomes(s, sup) ==
    IF ~sup THEN {"none"}
    ELSE IF s.recognitionRef = 0
    THEN (IF s.mounted /\ s.apiAvailable THEN {"ok", "OtherError"} ELSE {"none"})
    ELSE StartOutcomes(s)

stop(s) ==
    LET s1 == [cleanup(s) EXCEPT !.isListeningRef = FALSE]
        s2 == IF s1.recognitionRef # 0
              THEN providerStop(s1, s1.recognitionRef)
              ELSE s1
    IN  setInterimTranscript(setStatus(s2, "idle"), << >>)

\* restart: stop(), then setTimeout(start, 300) with the start of this render
restart(s) ==
    [stop(s) EXCEPT !.delayedStarts[supported(s)] = @ + 1,
                    !.step.startDelay = RESTART_FN_DELAY]

\* the teardown effect's cleanup
teardown(s) ==
    LET s1 == [cleanup([s EXCEPT !.isListeningRef = FALSE]) EXCEPT
                  !.unmounted = TRUE]
    IN  IF s1.recognitionRef # 0
        THEN providerAbort(s1, s1.recognitionRef)
        ELSE s1

\* the listener without its test of status
handleVisibility_IgnoresStatus(s) ==
    IF s.visible /\ s.isListeningRef THEN restart(s) ELSE s

\* the visibilitychange listener
handleVisibility(s) ==
    IF s.visible /\ s.isListeningRef
    THEN IF s.status # "listening" /\ s.status # "processing"
         THEN restart(s)
         ELSE s
    ELSE s

\* the effect reading listening-intent after its stop()
reconfigure_IntentAfterStop(s) ==
    IF ~s.mounted THEN s
    ELSE IF s.recognitionRef # 0
    THEN LET stopped1 == stop(s)
             wasListening == stopped1.isListeningRef
             s1 == setupRecognition([stopped1 EXCEPT !.recognitionRef = 0])
         IN  IF wasListening
             THEN [s1 EXCEPT !.delayedStarts[supported(s)] = @ + 1,
                             !.step.startDelay = RECONFIG_DELAY]
             ELSE s1
    ELSE s

\* the effect that runs when `language` changes
reconfigure(s) ==
    IF ~s.mounted THEN s
    ELSE IF s.recognitionRef # 0
    THEN LET wasListening == s.isListeningRef
             s1 == setupRecognition([stop(s) EXCEPT !.recognitionRef = 0])
         IN  IF wasListening
             THEN [s1 EXCEPT !.delayedStarts[supported(s)] = @ + 1,
                             !.step.startDelay = RECONFIG_DELAY]
             ELSE s1
    ELSE s


(***************************************************************************)
(* The handlers setupRecognition installs on an instance.                  *)
(***************************************************************************)
onstart(s) ==
    [setError(setStatus(s, "listening"), "null") EXCEPT
        !.restartAttemptsRef = 0,
        !.autoStarts = 0]

onspeechstart(s) == setStatus(s, "processing")

onspeechend(s) == IF s.isListeningRef THEN setStatus(s, "listening") ELSE s

\* history: a final, non-empty entry was processed.  step.judged gets, for
\* the entry, whether the handler is called (accepted), whether the final
\* entry before it had the same normalized text and was accepted (repeats),
\* and the time since that entry arrived (gap)
NoteFinal(s, norm, accepted) ==
    [s EXCEPT
        !.step.judged =
            Append(@, [norm |-> norm, accepted |-> accepted,
                       repeats |-> s.lastFinal.any /\ s.lastFinal.accepted
                                   /\ s.lastFinal.norm = norm,
                       gap |-> IF s.lastFinal.any THEN s.now - s.lastFinal.at
                               ELSE 0]),
        !.lastFinal =
            [any |-> TRUE, norm |-> norm, at |-> s.now, accepted |-> accepted]]

\* the dedupe test without its time condition
IsDuplicate_AnyAge(s, transcript) ==
    normalizeArabic(transcript) \in s.processedTranscriptsRef

\* the dedupe test of onresult: the entry is skipped (`continue`)
IsDuplicate(s, transcript) ==
    /\ s.now - s.lastProcessedTimeRef < DEBOUNCE_MS
    /\ normalizeArabic(transcript) \in s.processedTranscriptsRef

\* the same handing the handler the normalized text
acceptFinal_Normalized(s, transcript, confidence) ==
    LET timeSinceLastProcess == s.now - s.lastProcessedTimeRef
        s1 == IF timeSinceLastProcess > DEBOUNCE_MS * 2
              THEN [s EXCEPT !.processedTranscriptsRef = {}]
              ELSE s
    IN  [NoteFinal(s1, normalizeArabic(transcript), TRUE) EXCEPT
            !.processedTranscriptsRef = @ \cup {normalizeArabic(transcript)},
            !.lastProcessedTimeRef = s.now,
            !.step.delivered =
                Append(@, [transcript |-> normalizeArabic(transcript),
                           confidence |-> confidence])]

\* one final, non-empty entry that passed the dedupe test
acceptFinal(s, transcript, confidence) ==
    LET timeSinceLastProcess == s.now - s.lastProcessedTimeRef
        s1 == IF timeSinceLastProcess > DEBOUNCE_MS * 2
              THEN [s EXCEPT !.processedTranscriptsRef = {}]
              ELSE s
    IN  [NoteFinal(s1, normalizeArabic(transcript), TRUE) EXCEPT
            !.processedTranscriptsRef = @ \cup {normalizeArabic(transcript)},
            !.lastProcessedTimeRef = s.now,
            !.step.delivered =
                Append(@, [transcript |-> transcript, confidence |-> confidence])]

\* the loop of onresult from index i on; interimText is the loop's local.
\* Indices are 1-based here.
RECURSIVE onresultLoop(_, _, _, _)
onresultLoop(s, event, i, interimText) ==
    IF i > Len(event.results) THEN setInterimTranscript(s, interimText)
    ELSE LET result == event.results[i]
             transcript == Trim(result.transcript)
         IN  IF result.isFinal /\ transcript # << >>
             THEN IF IsDuplicate(s, transcript)
                  THEN onresultLoop(
                           NoteFinal(s, normalizeArabic(transcript), FALSE),
                           event, i + 1, interimText)
                  ELSE onresultLoop(
                           acceptFinal(s, transcript, result.confidence),
                           event, i + 1, interimText)
             ELSE IF ~result.isFinal
             THEN onresultLoop(s, event, i + 1, interimText \o transcript)
             ELSE onresultLoop(s, event, i + 1, interimText)

onresult(s, event) == onresultLoop(s, event, event.resultIndex, << >>)

\* onerror that leaves listening-intent set on a permission error
onerror_DeniedKeepsIntent(s, code) ==
    LET tail(x) == IF x.isListeningRef /\ code # "aborted"
                   THEN scheduleRestart(x)
                   ELSE x
    IN  CASE code = "network" -> tail(setError(s, "ERR_NETWORK"))
          [] code \in {"not-allowed", "service-not-allowed"} ->
                setStatus(setError(s, "ERR_MIC_DENIED"), "error")
          [] code = "no-speech" ->
                IF s.isListeningRef THEN scheduleRestart(s) ELSE s
          [] code = "aborted" -> s
          [] code = "audio-capture" -> tail(setError(s, "ERR_NO_MIC"))
          [] OTHER ->
                IF s.isListeningRef
                THEN scheduleRestart(s)
                ELSE tail(setError(s, GenericMessage(code)))

\* onerror whose default case does not return after scheduling the restart
onerror_TransientSurfaced(s, code) ==
    LET tail(x) == IF x.isListeningRef /\ code # "aborted"
                   THEN scheduleRestart(x)
                   ELSE x
    IN  CASE code = "network" -> tail(setError(s, "ERR_NETWORK"))
          [] code \in {"not-allowed", "service-not-allowed"} ->
                [setStatus(setError(s, "ERR_MIC_DENIED"), "error") EXCEPT
                    !.isListeningRef = FALSE]
          [] code = "no-speech" ->
                IF s.isListeningRef THEN scheduleRestart(s) ELSE s
          [] code = "aborted" -> s
          [] code = "audio-capture" -> tail(setError(s, "ERR_NO_MIC"))
          [] OTHER ->
                IF s.isListeningRef
                THEN setError(scheduleRestart(s), GenericMessage(code))
                ELSE tail(setError(s, GenericMessage(code)))

onerror(s, code) ==
    LET tail(x) == IF x.isListeningRef /\ code # "aborted"
                   THEN scheduleRestart(x)
                   ELSE x
    IN  CASE code = "network" -> tail(setError(s, "ERR_NETWORK"))
          [] code \in {"not-allowed", "service-not-allowed"} ->
                [setStatus(setError(s, "ERR_MIC_DENIED"), "error") EXCEPT
                    !.isListeningRef = FALSE]
          [] code = "no-speech" ->
                IF s.isListeningRef THEN scheduleRestart(s) ELSE s
          [] code = "aborted" -> s
          [] code = "audio-capture" -> tail(setError(s, "ERR_NO_MIC"))
          [] OTHER ->
                IF s.isListeningRef
                THEN scheduleRestart(s)
                ELSE tail(setError(s, GenericMessage(code)))

\* onend that leaves the interim transcript as it was
onend_KeepsInterim(s) ==
    IF s.isListeningRef
    THEN scheduleRestart(setStatus(s, "starting"))
    ELSE setStatus(s, "idle")

onend(s) ==
    LET s1 == setInterimTranscript(s, << >>)
    IN  IF s1.isListeningRef
        THEN scheduleRestart(setStatus(s1, "starting"))
        ELSE setStatus(s1, "idle")

(***************************************************************************)
(* VoiceSubha: the result handler it gives the hook, and the change of the *)
(* selected phrase.                                                        *)
(***************************************************************************)
\* handleSpeechResult adding one for a transcript that matches
handleSpeechResult_ByOne(s, transcript, confidence) ==
    LET matches == countOccurrencesOf(transcript, s.selectedDhikr)
    IN  IF matches > 0
        THEN [s EXCEPT !.sessionCount = @ + 1,
                       !.totalCount = @ + 1]
        ELSE s

\* handleSpeechResult: the two functional updates it queues, applied
handleSpeechResult(s, transcript, confidence) ==
    LET matches == countOccurrencesOf(transcript, s.selectedDhikr)
    IN  IF matches > 0
        THEN [s EXCEPT !.sessionCount = @ + matches,
                       !.totalCount = @ + matches]
        ELSE s

\* the calls onResultRef.current(transcript, confidence) of one onresult,
\* from the k-th on, in the order the loop made them
RECURSIVE Handled(_, _)
Handled(s, k) ==
    IF k > Len(s.step.delivered) THEN s
    ELSE Handled(handleSpeechResult(s, s.step.delivered[k].transcript,
                                    s.step.delivered[k].confidence),
                 k + 1)

resetSession(s) == [s EXCEPT !.sessionCount = 0]

\* handleDhikrChange, with the phrase of the item chosen
handleDhikrChange(s, phrase) ==
    LET wasListening == s.status \in {"listening", "processing"}
        s1 == IF wasListening THEN stop(s) ELSE s
        s2 == resetSession([s1 EXCEPT !.selectedDhikr = phrase])
    IN  IF wasListening
        THEN [s2 EXCEPT !.delayedStarts[supported(s)] = @ + 1,
                        !.step.startDelay = DHIKR_CHANGE_DELAY]
        ELSE s2

(***************************************************************************)
(* Inputs.                                                                 *)
(***************************************************************************)
\* entries the provider reports: two spellings of one phrase (equal once
\* normalized) and another, padded phrase as finals, a final of whitespace
\* only, and an interim entry
ResultEntries ==
    {[isFinal |-> TRUE, transcript |-> <<"ALEF_HAMZA_ABOVE", "HEH">>, confidence |-> 1],
     [isFinal |-> TRUE, transcript |-> <<"ALEF", "HEH">>, confidence |-> 0],
     [isFinal |-> TRUE, transcript |-> <<" ", "a">>, confidence |-> 1],
     [isFinal |-> TRUE, transcript |-> <<" ">>, confidence |-> 1],
     [isFinal |-> FALSE, transcript |-> <<"a">>, confidence |-> 0]}

\* one entry, final or interim, of one phrase
SessionEvents ==
    {[resultIndex |-> 1,
      results |-> <<[isFinal |-> f, transcript |-> <<"a">>, confidence |-> 1]>>] :
        f \in BOOLEAN}

\* an entry of an earlier batch, still in the list below resultIndex
StaleEntry ==
    [isFinal |-> TRUE, transcript |-> <<"s">>, confidence |-> 1]

\* the result lists of k entries of which those from index i on are new
ResultLists(k, i) ==
    {[j \in 1..k |-> IF j < i THEN StaleEntry ELSE new[j - i + 1]] :
        new \in [1..(k - i + 1) -> ResultEntries]}

\* the result events whose list has at most n entries
ResultEvents(n) ==
    UNION {UNION {{[resultIndex |-> i, results |-> l] : l \in ResultLists(k, i)} :
                     i \in 1..k} : k \in 1..n}

AllResultEvents == ResultEvents(MaxBatch)

(***************************************************************************)
(* Actions.                                                                *)
(***************************************************************************)
Begin(name) == [St EXCEPT !.step = NoStep(name)]

\* the effect that sets `mounted` after the first render
Mount ==
    /\ ~mounted /\ ~unmounted
    /\ Apply([Begin("Mount") EXCEPT !.mounted = TRUE])

Unmount ==
    /\ ~unmounted
    /\ Apply([teardown(Begin("Unmount")) EXCEPT !.stopped = TRUE])

StartCall ==
    /\ ~unmounted
    /\ \E outcome \in StartCallOutcomes(St, supported(St)) :
          Apply([start(Begin("Start"), supported(St), outcome) EXCEPT
                    !.stopped = FALSE, !.stopPendingTimer = FALSE])

StopCall ==
    /\ ~unmounted
    /\ Apply([stop(Begin("Stop")) EXCEPT
                 !.stopped = TRUE,
                 !.stopPendingTimer = @ \/ PendingOf(St) > 0])

RestartCall ==
    /\ ~unmounted
    /\ Apply([restart(Begin("Restart")) EXCEPT
                 !.stopped = FALSE, !.stopPendingTimer = FALSE])

ClearError ==
    /\ ~unmounted
    /\ error # "null"
    /\ Apply(setError(Begin("ClearError"), "null"))

\* document's visibilitychange event; the listener exists while mounted
VisibilityChange ==
    /\ LET s == [Begin("Visibility") EXCEPT !.visible = ~visible]
       IN  IF mounted /\ ~unmounted THEN Apply(handleVisibility(s)) ELSE Apply(s)

\* the caller passes another language
Reconfigure ==
    /\ mounted /\ ~unmounted
    /\ CreatedOf(St) < MaxInst
    /\ \E l \in Languages \ {language} :
          Apply(reconfigure([Begin("Reconfigure") EXCEPT !.language = l]))

\* the outcomes of the provider call a restart timer's callback makes, if any
TimerOutcomes(s) ==
    IF s.isListeningRef /\ s.recognitionRef # 0 THEN StartOutcomes(s) ELSE {"none"}

\* the timer restartTimeoutRef names fires
RestartTimerFires ==
    /\ restartTimeoutRef = "pending"
    /\ LET s == [Begin("RestartTimer") EXCEPT !.restartTimeoutRef = "fired"]
       IN  \E outcome \in TimerOutcomes(s) :
              Apply(restartTimerCallback(s, outcome))

\* a restart timer that restartTimeoutRef no longer names fires
OrphanTimerFires ==
    /\ orphanTimers > 0
    /\ LET s == [Begin("RestartTimer") EXCEPT !.orphanTimers = @ - 1]
       IN  \E outcome \in TimerOutcomes(s) :
              Apply(restartTimerCallback(s, outcome))

\* history: one more provider start call made by a restart timer
Counted(s, outcome) ==
    IF outcome = "none" THEN s
    ELSE [s EXCEPT !.autoStarts = Min(@ + 1, MAX_RESTART_ATTEMPTS + MaxOver)]

\* the two timer actions, keeping the history counter autoStarts
RestartTimerCounted ==
    /\ restartTimeoutRef = "pending"
    /\ LET s == [Begin("RestartTimer") EXCEPT !.restartTimeoutRef = "fired"]
       IN  \E outcome \in TimerOutcomes(s) :
              Apply(Counted(restartTimerCallback(s, outcome), outcome))

OrphanTimerCounted ==
    /\ orphanTimers > 0
    /\ LET s == [Begin("RestartTimer") EXCEPT !.orphanTimers = @ - 1]
       IN  \E outcome \in TimerOutcomes(s) :
              Apply(Counted(restartTimerCallback(s, outcome), outcome))

\* a setTimeout(start, ...) of restart() or of the reconfiguration fires
DelayedStartFires ==
    \E sup \in BOOLEAN :
        /\ delayedStarts[sup] > 0
        /\ LET s == [Begin("DelayedStart") EXCEPT !.delayedStarts[sup] = @ - 1]
           IN  \E outcome \in StartCallOutcomes(s, sup) :
                  Apply(start(s, sup, outcome))

\* the provider's events, on any instance that has handlers
ProviderStart ==
    \E i \in Instances :
        /\ prov[i] \in {"starting", "stoppingEarly"}
        /\ Apply(onstart([Begin("ProviderStart") EXCEPT
                     !.prov[i] = IF @ = "starting" THEN "running" ELSE "stopping"]))

ProviderSpeechStart ==
    \E i \in Instances :
        /\ prov[i] \in {"running", "stopping"}
        /\ Apply(onspeechstart(Begin("ProviderSpeechStart")))

ProviderSpeechEnd ==
    \E i \in Instances :
        /\ prov[i] \in {"running", "stopping"}
        /\ Apply(onspeechend(Begin("ProviderSpeechEnd")))

ProviderResult ==
    \E i \in Instances :
        /\ prov[i] \in {"running", "stopping"}
        /\ \E event \in SessionEvents :
              Apply(onresult(Begin("ProviderResult"), event))

\* the same with every batch of at most MaxBatch entries
ProviderResultBatch ==
    \E i \in Instances :
        /\ prov[i] \in {"running", "stopping"}
        /\ \E event \in AllResultEvents :
              Apply(onresult(Begin("ProviderResult"), event))

\* the same, keeping the event in the history of the step
ProviderResultBatchNoted ==
    \E i \in Instances :
        /\ prov[i] \in {"running", "stopping"}
        /\ \E event \in AllResultEvents :
              Apply([onresult(Begin("ProviderResult"), event) EXCEPT
                        !.step.event = event])

\* entries for a counting session: a phrase said twice in one final,
\* another phrase, and an interim entry
SpokenEntries ==
    {[isFinal |-> TRUE, transcript |-> <<"a", " ", "a">>, confidence |-> 1],
     [isFinal |-> TRUE, transcript |-> <<"ALEF", "HEH">>, confidence |-> 1],
     [isFinal |-> FALSE, transcript |-> <<"a">>, confidence |-> 0]}

SpokenEvents ==
    {[resultIndex |-> 1, results |-> l] :
        l \in UNION {[1..k -> SpokenEntries] : k \in 1..MaxBatch}}

\* a result event, with the handler VoiceSubha gave the hook run on what
\* onresult hands over
ProviderResultHandled ==
    \E i \in Instances :
        /\ prov[i] \in {"running", "stopping"}
        /\ \E event \in SpokenEvents :
              \E r \in {Handled(onresult(Begin("ProviderResult"), event), 1)} :
                  /\ r.totalCount <= MaxCount
                  /\ ApplyRec(r)

\* the user picks a phrase
DhikrChange ==
    /\ ~unmounted
    /\ \E phrase \in DhikrPhrases :
          Apply(handleDhikrChange(Begin("DhikrChange"), phrase))

\* one final entry per event
FinalEvents ==
    {[resultIndex |-> 1, results |-> <<entry>>] :
        entry \in {e \in ResultEntries : e.isFinal}}

\* history: the texts the step handed to the handler were handed over now
Timed(s) ==
    [s EXCEPT !.acceptedAt =
        [n \in FinalTexts |->
            IF \E k \in DOMAIN s.step.judged :
                   s.step.judged[k].accepted /\ s.step.judged[k].norm = n
            THEN s.now ELSE @[n]]]

\* a result event of one final entry, the time of each accept kept
ProviderResultTimed ==
    \E i \in Instances :
        /\ prov[i] \in {"running", "stopping"}
        /\ \E event \in FinalEvents :
              Apply(Timed(onresult(Begin("ProviderResult"), event)))

ProviderError ==
    \E i \in Instances :
        /\ prov[i] \in {"starting", "running", "stoppingEarly", "stopping"}
        /\ \E code \in ErrorCodes :
              Apply(onerror([Begin("ProviderError") EXCEPT
                        !.prov[i] = IF @ \in {"starting", "running"}
                                    THEN "ending" ELSE "closing"], code))

\* the same, keeping the error code in the history of the step
ProviderErrorNoted ==
    \E i \in Instances :
        /\ prov[i] \in {"starting", "running", "stoppingEarly", "stopping"}
        /\ \E code \in ErrorCodes :
              Apply([onerror([Begin("ProviderError") EXCEPT
                        !.prov[i] = IF @ \in {"starting", "running"}
                                    THEN "ending" ELSE "closing"], code)
                        EXCEPT !.step.code = code])

\* the same over the larger set of codes
ProviderErrorAnyNoted ==
    \E i \in Instances :
        /\ prov[i] \in {"starting", "running", "stoppingEarly", "stopping"}
        /\ \E code \in MoreErrorCodes :
              Apply([onerror([Begin("ProviderError") EXCEPT
                        !.prov[i] = IF @ \in {"starting", "running"}
                                    THEN "ending" ELSE "closing"], code)
                        EXCEPT !.step.code = code])

ProviderEnd ==
    \E i \in Instances :
        /\ prov[i] \in {"running", "stoppingEarly", "stopping", "ending", "closing"}
        /\ Apply(onend([Begin("ProviderEnd") EXCEPT !.prov[i] = "inactive"]))

\* time passes
Tick ==
    /\ now < Epoch + MaxTicks * TickMs
    /\ Apply([Begin("Tick") EXCEPT !.now = @ + TickMs])

\* The session machine: caller, lifecycle, timers and one provider, with the
\* page visible, the language fixed and the clock standing still
Next ==
    \/ Mount
    \/ Unmount
    \/ StartCall
    \/ StopCall
    \/ RestartCall
    \/ RestartTimerFires
    \/ OrphanTimerFires
    \/ DelayedStartFires
    \/ ProviderStart
    \/ ProviderSpeechStart
    \/ ProviderSpeechEnd
    \/ ProviderResult
    \/ ProviderError
    \/ ProviderEnd

Spec == Init /\ [][Next]_vars

\* The restart budget: a session that is started and stopped, its provider's
\* start, error and end events, and the restart timers, counted
NextBudget ==
    \/ Mount
    \/ StartCall
    \/ StopCall
    \/ RestartTimerCounted
    \/ OrphanTimerCounted
    \/ ProviderStart
    \/ ProviderError
    \/ ProviderEnd

SpecBudget == Init /\ [][NextBudget]_vars

\* Result delivery: a running session, the clock, and result batches
NextResults ==
    \/ Mount
    \/ StartCall
    \/ ProviderStart
    \/ ProviderResultBatch
    \/ Tick

SpecResults == Init /\ [][NextResults]_vars

\* Result delivery with the clock standing still (every batch arrives inside
\* the dedupe window of the one before), the result event of each step kept
NextDelivery ==
    \/ Mount
    \/ StartCall
    \/ ProviderStart
    \/ ProviderResultBatchNoted

SpecDelivery == Init /\ [][NextDelivery]_vars

\* The visibility supervisor: a session, its provider and timers, and the
\* page going to the background and coming back
NextVisibility ==
    \/ Mount
    \/ Unmount
    \/ StartCall
    \/ StopCall
    \/ VisibilityChange
    \/ RestartTimerFires
    \/ OrphanTimerFires
    \/ DelayedStartFires
    \/ ProviderStart
    \/ ProviderSpeechStart
    \/ ProviderError
    \/ ProviderEnd

SpecVisibility == Init /\ [][NextVisibility]_vars

\* Reconfiguration: a session, its provider instances and timers, and the
\* caller changing the language
NextReconfig ==
    \/ Mount
    \/ StartCall
    \/ StopCall
    \/ Reconfigure
    \/ RestartTimerFires
    \/ OrphanTimerFires
    \/ DelayedStartFires
    \/ ProviderStart
    \/ ProviderEnd

SpecReconfig == Init /\ [][NextReconfig]_vars

\* Transient errors: a session that is started and stopped, its restart
\* timers, and provider errors of every code, the code kept
NextTransient ==
    \/ Mount
    \/ StartCall
    \/ StopCall
    \/ RestartTimerFires
    \/ OrphanTimerFires
    \/ ProviderStart
    \/ ProviderErrorAnyNoted
    \/ ProviderEnd

SpecTransient == Init /\ [][NextTransient]_vars

\* Repeated phrases: a running session, the clock, and final results one at
\* a time, with the time each text was last accepted
NextRepeats ==
    \/ Mount
    \/ StartCall
    \/ ProviderStart
    \/ ProviderResultTimed
    \/ Tick

SpecRepeats == Init /\ [][NextRepeats]_vars

\* Counting: a session whose results reach VoiceSubha's handler, and the
\* user changing the selected phrase, with the clock standing still (a
\* start() empties the set of processed texts)
NextTally ==
    \/ Mount
    \/ StartCall
    \/ DhikrChange
    \/ DelayedStartFires
    \/ ProviderStart
    \/ ProviderResultHandled
    \/ ProviderEnd

SpecTally == Init /\ [][NextTally]_vars

\* Error handling: the session machine without speech and result events,
\* with the error code of each error event kept
NextErrors ==
    \/ Mount
    \/ StartCall
    \/ StopCall
    \/ RestartCall
    \/ RestartTimerFires
    \/ OrphanTimerFires
    \/ DelayedStartFires
    \/ ProviderStart
    \/ ProviderErrorNoted
    \/ ProviderEnd

SpecErrors == Init /\ [][NextErrors]_vars

(***************************************************************************)
(* countOccurrences: one call, its loop taken one iteration at a time.     *)
(***************************************************************************)
\* the strings of at most n characters of an alphabet
Strings(alphabet, n) == UNION {[1..k -> alphabet] : k \in 0..n}

TextAlphabet == {"a", "b", " "}
TargetAlphabet == {"a", " ", "."}

\* words joined by single spaces
RECURSIVE Join(_)
Join(words) ==
    IF words = << >> THEN << >>
    ELSE IF Len(words) = 1 THEN words[1]
    ELSE words[1] \o <<" ">> \o Join(Tail(words))

\* k copies of a phrase joined by single spaces
Repeat(phrase, k) == Join([i \in 1..k |-> phrase])

\* a phrase of two tokens
TwoTokenPhrase == <<"a", " ", "b">>

Letters == <<"a", "b", "c", "d", "e", "f", "g", "h">>

\* the target phrases of n one-letter tokens, n from 4 to MaxTokens
LongTargets == {Join([i \in 1..n |-> <<Letters[i]>>]) : n \in 4..MaxTokens}

\* the transcript that says the letters picked, each followed by a space
RECURSIVE Saying(_, _)
Saying(picked, i) ==
    IF i > MaxTokens THEN << >>
    ELSE (IF picked[i] THEN <<Letters[i], " ">> ELSE << >>) \o Saying(picked, i + 1)

LongTexts ==
    {Saying(picked, 1) : picked \in [1..MaxTokens -> BOOLEAN]}
        \cup {<<"a", "b", "c", " ", "x">>, <<"x", " ", "y">>}

\* spellings the normalizer folds
ArabicTexts ==
    {<<"ALEF", "HEH", ",", "ALEF_MADDA", "TEH_MARBUTA", "FATHA">>,
     <<"A", "\t", "\n", "B", "!">>}
ArabicTargets == {<<"ALEF_HAMZA_ABOVE", "SHADDA", "HEH">>, <<"a", ".", " ", "b">>}

\* a long target phrase said several times over
RepeatedLongTexts == {Repeat(t, k) : t \in LongTargets, k \in 2..MaxReps}

CountTexts ==
    Strings(TextAlphabet, MaxTextLen) \cup LongTexts \cup ArabicTexts
        \cup {Repeat(TwoTokenPhrase, k) : k \in 0..MaxReps}
        \cup RepeatedLongTexts

CountTargets ==
    Strings(TargetAlphabet, MaxTargetLen) \cup LongTargets \cup ArabicTargets
        \cup {TwoTokenPhrase}

\* no call yet
InitCount ==
    /\ HookInit
    /\ apiAvailable
    /\ call = NoCall
    /\ normCall = NoNorm

\* countOccurrences(text, target) is called
Call ==
    /\ call.pc = "idle"
    /\ \E text \in CountTexts, target \in CountTargets :
          call' = [NoCall EXCEPT !.pc = "entry", !.text = text, !.target = target]
    /\ UNCHANGED <<hookVars, normCall>>

\* countOccurrences without the test of its first line
countOccurrences_NoGuard ==
    /\ call.pc = "entry"
    /\ call' =
          LET normalizedText == normalizeArabic(call.text)
              normalizedTarget == normalizeArabic(call.target)
              targetWords == Split(normalizedTarget)
              entered == [call EXCEPT !.normalizedText = normalizedText,
                                      !.normalizedTarget = normalizedTarget]
          IN  IF Len(targetWords) <= 3
              THEN [entered EXCEPT !.pc = "loop", !.count = 0, !.pos = 0]
              ELSE [entered EXCEPT
                       !.pc = "done",
                       !.result =
                           IF AboveThreshold(calculateSimilarity(
                                  normalizedText, normalizedTarget))
                           THEN 1 ELSE 0]
    /\ UNCHANGED <<hookVars, normCall>>

\* countOccurrences up to its loop, and past it for a target of more than
\* three words
countOccurrences ==
    /\ call.pc = "entry"
    /\ call' =
          IF call.target = << >> \/ call.text = << >>
          THEN [call EXCEPT !.pc = "done", !.result = 0]
          ELSE LET normalizedText == normalizeArabic(call.text)
                   normalizedTarget == normalizeArabic(call.target)
                   targetWords == Split(normalizedTarget)
                   entered == [call EXCEPT !.normalizedText = normalizedText,
                                           !.normalizedTarget = normalizedTarget]
               IN  IF Len(targetWords) <= 3
                   THEN [entered EXCEPT !.pc = "loop", !.count = 0, !.pos = 0]
                   ELSE [entered EXCEPT
                            !.pc = "done",
                            !.result =
                                IF AboveThreshold(calculateSimilarity(
                                       normalizedText, normalizedTarget))
                                THEN 1 ELSE 0]
    /\ UNCHANGED <<hookVars, normCall>>

\* one iteration of the while (true) loop.  count++ works on a double, which
\* stops growing once it is large enough; MaxMatches stands for that value.
countOccurrencesLoop ==
    /\ call.pc = "loop"
    /\ LET index == indexOf(call.normalizedText, call.normalizedTarget, call.pos)
       IN  call' =
              IF index = -1
              THEN [call EXCEPT !.pc = "done", !.result = call.count]
              ELSE [call EXCEPT
                       !.count = Min(@ + 1, MaxMatches),
                       !.pos = NextPos(index, call.normalizedTarget)]
    /\ UNCHANGED <<hookVars, normCall>>

NextCount ==
    \/ Call
    \/ countOccurrences
    \/ countOccurrencesLoop

\* the loop is not preempted: an iteration that can run does run
SpecCount == InitCount /\ [][NextCount]_vars /\ WF_vars(countOccurrencesLoop)

(***************************************************************************)
(* normalizeArabic on its own: called on a string, then on its result.     *)
(***************************************************************************)
\* a diacritic and the tatweel, every letter the normalizer folds and the
\* letter it folds to, punctuation, whitespace, and a cased letter
NormAlphabet ==
    {"FATHA", "TATWEEL",
     "ALEF_HAMZA_BELOW", "ALEF_HAMZA_ABOVE", "ALEF_MADDA", "ALEF",
     "ALEF_MAKSURA", "YEH_HAMZA", "YEH", "WAW_HAMZA", "WAW",
     "TEH_MARBUTA", "HEH",
     ".", "ARABIC_COMMA", " ", "\t", "A", "a"}

NormInputs == Strings(NormAlphabet, MaxNormLen)

InitNorm ==
    /\ HookInit
    /\ apiAvailable
    /\ call = NoCall
    /\ normCall = NoNorm

\* normalizeArabic(x)
Normalize ==
    /\ normCall.pc = "idle"
    /\ \E x \in NormInputs :
          normCall' = [pc |-> "once", x |-> x, once |-> normalizeArabic(x),
                   twice |-> << >>]
    /\ UNCHANGED <<hookVars, call>>

\* normalizeArabic of what the first call returned
NormalizeAgain ==
    /\ normCall.pc = "once"
    /\ normCall' = [normCall EXCEPT !.pc = "twice", !.twice = normalizeArabic(normCall.once)]
    /\ UNCHANGED <<hookVars, call>>

NextNorm ==
    \/ Normalize
    \/ NormalizeAgain

SpecNorm == InitNorm /\ [][NextNorm]_vars

(***************************************************************************)
(* Properties.                                                             *)
(***************************************************************************)
Pending == PendingOf(St)

\* instance i has been started and has had no end event, stop or abort since
Active(i) == prov[i] \in {"running", "ending"}

\* C1: at most one automatic-restart timer is scheduled and unfired at any
\* time (scheduling a restart cancels the one already pending).
C1_AtMostOnePendingRestart == Pending <= 1

\* C2: after a stop() by the caller that found a restart timer pending, no
\* provider start call is made until the caller calls start() or restart().
C2_NoProviderStartAfterStop == stopPendingTimer => step.provStart = "none"

\* C3: after stop() or teardown, and until the caller calls start() or
\* restart() again, a delayed start() of an earlier restart() or
\* reconfiguration has no effect: listening-intent stays cleared, the provider
\* is not started and the delayed start does not set status to starting.
C3_StopBeatsDelayedStart ==
    stopped =>
        /\ ~isListeningRef
        /\ step.provStart = "none"
        /\ (step.op = "DelayedStart" => status # "starting")

LateEvents ==
    {"ProviderStart", "ProviderSpeechStart", "ProviderSpeechEnd", "ProviderResult"}

\* C4: while the session is deliberately stopped (stop() called, no start()
\* since, listening-intent cleared), a provider start, speech-start,
\* speech-end or result event neither changes status nor calls the result
\* handler.
C4_StaleEventsIgnored ==
    [][(stopped /\ ~isListeningRef /\ step'.op \in LateEvents)
          => (status' = status /\ step'.delivered = << >>)]_vars

\* C5: once the restart budget is exhausted, no provider event schedules a
\* restart timer until start() is called again.
C5_ExhaustionIsTerminal == exhausted => step.scheduled = 0

\* C6: between start() or a start event and the next, restart timers make at
\* most MAX_RESTART_ATTEMPTS provider start calls (accepted or thrown).
C6_AutoRetryBounded == autoStarts <= MAX_RESTART_ATTEMPTS

\* C7: while the hook is mounted, status is listening or processing only
\* while the current provider instance is running (started, and not ended,
\* stopped or aborted since).
C7_ListeningOnlyWhileRunning ==
    (~unmounted /\ status \in {"listening", "processing"}) =>
        recognitionRef # 0 /\ Active(recognitionRef)

\* C8: while the hook is mounted, status is idle only when no provider
\* instance is running and no restart timer is scheduled.
C8_IdleOnlyWhenQuiet ==
    (~unmounted /\ status = "idle") =>
        /\ \A i \in Instances : ~Active(i) /\ prov[i] # "starting"
        /\ Pending = 0

\* C9: a final result whose normalized text equals that of the final result
\* before it, which was delivered, is not delivered when it arrives less than
\* DEBOUNCE_MS after it (one handler call for the two) and is delivered when
\* it arrives more than 2 * DEBOUNCE_MS after it (two handler calls); the
\* handler is called exactly for the accepted entries.
C9_DebounceWindow ==
    /\ \A k \in DOMAIN step.judged :
          step.judged[k].repeats =>
              /\ step.judged[k].gap < DEBOUNCE_MS => ~step.judged[k].accepted
              /\ step.judged[k].gap > 2 * DEBOUNCE_MS => step.judged[k].accepted
    /\ Len(step.delivered) =
          Cardinality({k \in DOMAIN step.judged : step.judged[k].accepted})

\* a repeat arrived inside the window, after time had passed, and was dropped
C9_Witness ==
    \E k \in DOMAIN step.judged :
        /\ step.judged[k].repeats
        /\ step.judged[k].gap > 0
        /\ step.judged[k].gap < DEBOUNCE_MS
        /\ ~step.judged[k].accepted

\* a repeat arrived more than twice the window later and was delivered
C9_WitnessApart ==
    \E k \in DOMAIN step.judged :
        /\ step.judged[k].repeats
        /\ step.judged[k].gap > 2 * DEBOUNCE_MS
        /\ step.judged[k].accepted

\* C10: a start() that finds the provider capability unsupported sets the
\* unsupported-feature error and changes nothing else: status (idle where the
\* capability is missing), listening-intent, the provider instance and the
\* timers stay as they were, and the provider is not called.
C10_UnsupportedStart ==
    [][step'.unsupported =>
          /\ ~unmounted' => error' = "ERR_UNSUPPORTED"
          /\ status' = status
          /\ isListeningRef' = isListeningRef
          /\ recognitionRef' = recognitionRef
          /\ prov' = prov
          /\ restartAttemptsRef' = restartAttemptsRef
          /\ restartTimeoutRef' = restartTimeoutRef
          /\ orphanTimers' = orphanTimers
          /\ \A b \in BOOLEAN : delayedStarts'[b] <= delayedStarts[b]
          /\ step'.provStart = "none"
          /\ step'.scheduled = 0
          /\ ~apiAvailable =>
                status' = "idle" /\ ~isListeningRef' /\ recognitionRef' = 0]_vars

\* the caller's start() ran where the capability is missing
C10_Witness ==
    /\ step.op = "Start"
    /\ step.unsupported
    /\ ~apiAvailable
    /\ mounted
    /\ error = "ERR_UNSUPPORTED"
    /\ status = "idle"

\* C11: a start() by the caller that finds the capability supported leaves no
\* restart timer pending, sets listening-intent, resets the restart-attempt
\* counter to 0, empties the dedupe set, resets the last-accept timestamp,
\* sets status to starting and makes one provider start call.
C11_StartResets ==
    [][(step'.op = "Start" /\ ~step'.unsupported) =>
          /\ restartTimeoutRef' = "null"
          /\ orphanTimers' = 0
          /\ isListeningRef'
          /\ restartAttemptsRef' = 0
          /\ processedTranscriptsRef' = {}
          /\ lastProcessedTimeRef' = 0
          /\ status' = "starting"
          /\ step'.provStart # "none"]_vars

\* C12: when the provider start call made by start() throws InvalidStateError
\* (the instance is already started), start() completes as usual and the
\* error message is left as it was.
C12_StartConflictSwallowed ==
    [][(step'.op \in {"Start", "DelayedStart"}
          /\ step'.provStart = "InvalidStateError") =>
          /\ error' = error
          /\ isListeningRef'
          /\ ~unmounted' => status' = "starting"]_vars

\* start() met the conflict while an error message was showing
C12_Witness ==
    /\ step.op = "Start"
    /\ step.provStart = "InvalidStateError"
    /\ error = "ERR_NETWORK"
    /\ status = "starting"

\* C13: stop() clears listening-intent, leaves no restart timer pending, asks
\* the provider instance to stop, and leaves status idle and the interim
\* transcript empty; a provider end event after it, with no start() between,
\* leaves status idle and schedules no restart.
C13_StopQuiesces ==
    [][/\ step'.op = "Stop" =>
             /\ ~isListeningRef'
             /\ restartTimeoutRef' = "null"
             /\ orphanTimers' = 0
             /\ recognitionRef # 0 =>
                    prov'[recognitionRef] \notin {"starting", "running", "ending"}
             /\ status' = "idle"
             /\ interimTranscript' = << >>
       /\ (stopped /\ ~unmounted /\ step'.op = "ProviderEnd") =>
             /\ status' = "idle"
             /\ step'.scheduled = 0]_vars

FatalCodes == {"not-allowed", "service-not-allowed"}

\* C14: a provider error not-allowed or service-not-allowed sets the
\* microphone-denied message and status error, clears listening-intent and
\* schedules nothing; and while listening-intent is cleared (as it is from
\* that event until start() runs) no event sets it, schedules a restart or
\* calls the provider's start.
C14_PermissionDeniedIsFatal ==
    [][/\ (step'.op = "ProviderError" /\ step'.code \in FatalCodes) =>
             /\ ~unmounted => (error' = "ERR_MIC_DENIED" /\ status' = "error")
             /\ ~isListeningRef'
             /\ step'.scheduled = 0
             /\ step'.provStart = "none"
       /\ (~isListeningRef /\ step'.op \notin {"Start", "DelayedStart"}) =>
             /\ ~isListeningRef'
             /\ step'.scheduled = 0
             /\ step'.provStart = "none"]_vars

\* permission was denied while a restart timer was pending
C14_Witness ==
    /\ step.op = "ProviderError"
    /\ step.code = "not-allowed"
    /\ error = "ERR_MIC_DENIED"
    /\ status = "error"
    /\ ~isListeningRef
    /\ Pending > 0

\* C15: a provider error network sets the network message, sets status to
\* error and leaves listening-intent as it was.
C15_NetworkErrorStatus ==
    [][(step'.op = "ProviderError" /\ step'.code = "network" /\ ~unmounted) =>
          /\ error' = "ERR_NETWORK"
          /\ status' = "error"
          /\ isListeningRef' = isListeningRef]_vars

\* C16: on a provider end event (hook mounted) the interim transcript is
\* cleared; with listening-intent set, status becomes starting and a restart
\* is scheduled; without it, status becomes idle and nothing is scheduled.
C16_EndEvent ==
    [][(step'.op = "ProviderEnd" /\ ~unmounted) =>
          /\ interimTranscript' = << >>
          /\ IF isListeningRef
             THEN status' = "starting" /\ step'.scheduled = 1
             ELSE status' = "idle" /\ step'.scheduled = 0]_vars

\* C16, amended: as C16 while the restart budget is not used up; an end event
\* that finds listening-intent set and the restart counter at
\* MAX_RESTART_ATTEMPTS sets status error and the restart-failed message,
\* resets the counter and schedules nothing.
C16_EndEventWithinBudget ==
    [][(step'.op = "ProviderEnd" /\ ~unmounted) =>
          /\ interimTranscript' = << >>
          /\ IF ~isListeningRef
             THEN status' = "idle" /\ step'.scheduled = 0
             ELSE IF restartAttemptsRef < MAX_RESTART_ATTEMPTS
             THEN status' = "starting" /\ step'.scheduled = 1
             ELSE /\ status' = "error"
                  /\ error' = "ERR_RESTART_FAILED"
                  /\ restartAttemptsRef' = 0
                  /\ step'.scheduled = 0]_vars

\* an end event found listening-intent set and scheduled a restart
C16_Witness ==
    /\ step.op = "ProviderEnd"
    /\ ~unmounted
    /\ isListeningRef
    /\ status = "starting"
    /\ step.scheduled = 1
    /\ interimTranscript = << >>

\* C17: every restart timer is scheduled with the delay RESTART_DELAY +
\* k * RESTART_BACKOFF_MS, k being the number of provider start calls restart
\* timers have made since start() or the last provider start event, with k at
\* most 9 (a delay of at most 4550 ms).
C17_LinearBackoff ==
    step.scheduled > 0 =>
        /\ step.delay = RESTART_DELAY + autoStarts * RESTART_BACKOFF_MS
        /\ autoStarts <= MAX_RESTART_ATTEMPTS - 1
        /\ step.delay <= 4550

\* the matches a scan of t from left to right finds, each match moving the
\* scan to the character after its end (target not empty)
RECURSIVE ScanCount(_, _)
ScanCount(t, target) ==
    IF Len(t) < Len(target) THEN 0
    ELSE IF SubSeq(t, 1, Len(target)) = target
    THEN 1 + ScanCount(SubSeq(t, Len(target) + 1, Len(t)), target)
    ELSE ScanCount(Tail(t), target)

TokensOf(text) == Split(normalizeArabic(text))

\* C18: for a target whose normalized form has one to three tokens,
\* countOccurrences returns the number of non-overlapping matches of the
\* normalized target a scan of the normalized transcript from left to right
\* finds: 2 for ("aaaa", "aa"), k for k copies of a two-token phrase joined
\* by single spaces.  (A normalized target of no token is C20's case.)
C18_ShortPhraseCount ==
    (call.pc = "done" /\ Len(TokensOf(call.target)) \in 1..3) =>
        /\ call.result =
              ScanCount(normalizeArabic(call.text), normalizeArabic(call.target))
        /\ (call.text = <<"a", "a", "a", "a">> /\ call.target = <<"a", "a">>) =>
              call.result = 2
        /\ \A k \in 0..MaxReps :
              (call.text = Repeat(TwoTokenPhrase, k)
                  /\ call.target = TwoTokenPhrase) => call.result = k

\* the call ("aaaa", "aa") returned 2
C18_Witness ==
    /\ call.pc = "done"
    /\ call.text = <<"a", "a", "a", "a">>
    /\ call.target = <<"a", "a">>
    /\ call.result = 2

\* the tokens of the target that contain, or are contained in, a token of
\* the transcript
SharedTokens(text, target) ==
    {k \in DOMAIN TokensOf(target) :
        \E j \in DOMAIN TokensOf(text) :
            \/ includes(TokensOf(text)[j], TokensOf(target)[k])
            \/ includes(TokensOf(target)[k], TokensOf(text)[j])}

\* C19: for a target of more than three tokens, countOccurrences returns 1
\* when the transcript shares at least 60% of the target's tokens (3 of 5
\* included) and 0 when it shares less.
C19_LongPhraseTolerance ==
    (call.pc = "done" /\ Len(TokensOf(call.target)) > 3) =>
        call.result =
            IF 100 * Cardinality(SharedTokens(call.text, call.target))
                   >= 60 * Len(TokensOf(call.target))
            THEN 1 ELSE 0

\* C20: countOccurrences is total: every call that reaches the scan of
\* lines 249-255 leaves it and returns an integer that is not negative (a
\* call that does not reach the scan returns in its first step).  The scan
\* is synchronous code, so its iterations are taken as long as they are
\* enabled (WF on countOccurrencesLoop in SpecCount).  An iteration that
\* finds a match without moving pos, once count has stopped growing, leaves
\* the state as it is: the loop then runs forever on one state.
C20_CountTerminates ==
    (call.pc = "loop") ~> (call.pc = "done" /\ call.result >= 0)

\* C21: a call of countOccurrences with an empty transcript or an empty
\* target returns 0, and does so without scanning.
C21_EmptyArguments ==
    (call.pc \notin {"idle", "entry"}
        /\ (call.text = << >> \/ call.target = << >>)) =>
        call.pc = "done" /\ call.result = 0

\* a call with an empty target and a transcript that is not empty returned 0
C21_Witness ==
    /\ call.pc = "done"
    /\ call.target = << >>
    /\ call.text = <<"a", "b">>
    /\ call.result = 0

\* the same with an empty transcript and a target that is not empty
C21_WitnessEmptyText ==
    /\ call.pc = "done"
    /\ call.text = << >>
    /\ call.target = <<"a">>
    /\ call.result = 0

\* C22: normalizeArabic applied to its own result returns that result.
C22_NormalizerIdempotent == normCall.pc = "twice" => normCall.twice = normCall.once

\* a string the normalizer changes in every way it can was normalized twice
C22_Witness ==
    /\ normCall.pc = "twice"
    /\ normCall.x = <<"ALEF_MADDA", ".", "A">>
    /\ normCall.once = <<"ALEF", " ", "a">>
    /\ normCall.twice = normCall.once

\* an entry's text, as the provider gave it or trimmed
TextOf(entry, trimmed) ==
    IF trimmed THEN Trim(entry.transcript) ELSE entry.transcript

\* the final entries of an event from index i on whose text is not empty
RECURSIVE FinalsFrom(_, _, _)
FinalsFrom(event, i, trimmed) ==
    IF i > Len(event.results) THEN << >>
    ELSE (IF event.results[i].isFinal /\ TextOf(event.results[i], trimmed) # << >>
          THEN <<event.results[i]>> ELSE << >>)
             \o FinalsFrom(event, i + 1, trimmed)

\* what the handler is to be called with for the finals from the k-th on:
\* the text and confidence of those the dedupe test let through
RECURSIVE HandedOver(_, _, _, _)
HandedOver(finals, judged, k, trimmed) ==
    IF k > Len(finals) THEN << >>
    ELSE (IF judged[k].accepted
          THEN <<[transcript |-> TextOf(finals[k], trimmed),
                  confidence |-> finals[k].confidence]>>
          ELSE << >>) \o HandedOver(finals, judged, k + 1, trimmed)

\* a result event was handled as stated: the dedupe test was applied to the
\* final entries with text from resultIndex on, in index order, and the
\* handler was called, in that order, for those it let through and for
\* nothing else, with the entry's text and confidence
DeliveredAsStated(trimmed) ==
    (step.op = "ProviderResult" /\ step.event # NoEvent) =>
        LET finals == FinalsFrom(step.event, step.event.resultIndex, trimmed)
        IN  /\ Len(step.judged) = Len(finals)
            /\ \A k \in DOMAIN step.judged :
                  k <= Len(finals) =>
                      step.judged[k].norm = normalizeArabic(finals[k].transcript)
            /\ Len(step.judged) = Len(finals) =>
                  step.delivered = HandedOver(finals, step.judged, 1, trimmed)

\* C23: within a result batch the entries from resultIndex on are processed
\* in index order; the handler is called only for final entries whose text
\* is not empty and that pass the dedupe test, in that order, with the
\* entry's original text and its confidence; interim entries and empty
\* finals never reach it.
C23_ResultDelivery == DeliveredAsStated(FALSE)

\* C23, amended: the same for the entry's text with leading and trailing
\* whitespace removed: a final entry counts as empty when nothing is left,
\* and the handler is called with the trimmed text, otherwise as the provider
\* gave it (not normalized).
C23_ResultDeliveryTrimmed == DeliveredAsStated(TRUE)

\* a batch held two finals: the handler was called for both in index order,
\* for the first with its text trimmed, for the second with the provider's
\* spelling, which is not the normalized one
C23_Witness ==
    /\ step.op = "ProviderResult"
    /\ step.event.resultIndex = 1
    /\ Len(step.event.results) = 2
    /\ step.event.results[1].transcript = <<" ", "a">>
    /\ step.delivered =
          <<[transcript |-> <<"a">>, confidence |-> 1],
            [transcript |-> <<"ALEF_HAMZA_ABOVE", "HEH">>, confidence |-> 1]>>

\* what a visibility event, or any step that is none of the hook's business,
\* leaves alone
SessionState ==
    <<status, error, interimTranscript, recognitionRef, isListeningRef,
      restartAttemptsRef, restartTimeoutRef, orphanTimers, delayedStarts,
      processedTranscriptsRef, lastProcessedTimeRef, prov, instLang>>

\* C24: while the hook is mounted (its listener exists from the mount to the
\* teardown), when the page becomes visible while listening-intent is set and
\* status is neither listening nor processing, restart() is invoked (stop():
\* intent cleared, the tracked timer cancelled, the instance asked to stop,
\* status idle, interim transcript empty; then a start() set to run after
\* RESTART_FN_DELAY); a visibility event in any other case changes nothing.
C24_VisibilitySupervisor ==
    [][step'.op = "Visibility" =>
          IF /\ mounted /\ ~unmounted
             /\ visible' /\ isListeningRef
             /\ status \notin {"listening", "processing"}
          THEN /\ ~isListeningRef'
               /\ restartTimeoutRef' = "null"
               /\ recognitionRef' = recognitionRef
               /\ recognitionRef # 0 =>
                      prov'[recognitionRef] \notin {"starting", "running", "ending"}
               /\ status' = "idle"
               /\ interimTranscript' = << >>
               /\ DelayedOf(St') = DelayedOf(St) + 1
               /\ step'.startDelay = RESTART_FN_DELAY
          ELSE /\ SessionState' = SessionState
               /\ step'.startDelay = 0]_vars

\* the page came back while the session was waiting to restart, and
\* restart() was invoked
C24_Witness ==
    /\ step.op = "Visibility"
    /\ visible
    /\ step.startDelay = RESTART_FN_DELAY
    /\ status = "idle"
    /\ ~isListeningRef
    /\ DelayedOf(St) = 1
    /\ Pending > 0

ProviderEvents ==
    {"ProviderStart", "ProviderSpeechStart", "ProviderSpeechEnd",
     "ProviderResult", "ProviderError", "ProviderEnd"}

\* C25: a change of language that finds a provider instance stops that
\* instance and discards it; a fresh instance created with the new language
\* takes its place; a start() is set to run after RECONFIG_DELAY exactly when
\* listening-intent was set before the change; and the calls the machine
\* makes on the provider only ever reach the instance it holds.
C25_Reconfiguration ==
    [][/\ (step'.op = "Reconfigure" /\ recognitionRef # 0) =>
             /\ language' # language
             /\ prov'[recognitionRef] \notin {"starting", "running", "ending"}
             /\ recognitionRef' \notin {0, recognitionRef}
             /\ prov[recognitionRef'] = "none"
             /\ prov'[recognitionRef'] = "inactive"
             /\ instLang'[recognitionRef'] = language'
             /\ IF isListeningRef
                THEN /\ DelayedOf(St') = DelayedOf(St) + 1
                     /\ step'.startDelay = RECONFIG_DELAY
                ELSE /\ delayedStarts' = delayedStarts
                     /\ step'.startDelay = 0
       /\ step'.op \notin ProviderEvents =>
             \A i \in Instances :
                 i \notin {recognitionRef, recognitionRef'} => prov'[i] = prov[i]]_vars

\* the language changed while the session was listening: the first instance
\* was asked to stop, the second holds the new language, a start() is due
C25_Witness ==
    /\ step.op = "Reconfigure"
    /\ recognitionRef = 2
    /\ prov[1] = "stopping"
    /\ prov[2] = "inactive"
    /\ instLang[2] = "ar-SA"
    /\ language = "ar-SA"
    /\ step.startDelay = RECONFIG_DELAY
    /\ DelayedOf(St) = 1
    /\ ~isListeningRef


\* C26: a provider end event that follows a deliberate stop() of its instance
\* schedules no restart and does not set status to starting, also when a
\* start() (the one restart() or the reconfiguration set to run) has set
\* listening-intent again before the event is delivered.
C26_StopEndNoRestart ==
    [][(step'.op = "ProviderEnd" /\ ~unmounted
          /\ \E i \in Instances :
                /\ prov[i] \in {"stoppingEarly", "stopping", "closing"}
                /\ prov'[i] = "inactive") =>
          /\ step'.scheduled = 0
          /\ status # "starting" => status' # "starting"]_vars


\* the current instance owes the hook an event: a start event for an accepted
\* start, or the end event that closes a run
EventDue ==
    recognitionRef # 0 /\ prov[recognitionRef] \notin {"none", "inactive"}

\* C27: while the hook is mounted, whenever listening-intent is set and
\* status is starting, the provider owes an event or a restart timer or a
\* delayed start() is pending (so the session cannot rest in starting), also
\* after a start() whose provider call threw an error other than
\* InvalidStateError.
C27_NoDeadlockInStarting ==
    (~unmounted /\ isListeningRef /\ status = "starting") =>
        EventDue \/ Pending > 0 \/ DelayedOf(St) > 0


\* C28: once the provider has started (status listening or processing, the
\* instance running) no restart timer is pending, and a restart timer never
\* calls the provider's start on a running instance.
C28_NoRestartWhileRunning ==
    /\ (~unmounted /\ status \in {"listening", "processing"}
           /\ recognitionRef # 0 /\ prov[recognitionRef] = "running") =>
          Pending = 0
    /\ ~(/\ step.op = "RestartTimer"
          /\ step.provStart = "InvalidStateError"
          /\ prov[recognitionRef] = "running")


FatalMessages == {"ERR_MIC_DENIED", "ERR_RESTART_FAILED"}

CallerOps == {"Start", "Stop", "Restart", "DelayedStart", "Unmount"}

\* C29: once status is error with the microphone-denied or the
\* restart-failed message, it stays error until the caller calls start(),
\* stop() or restart() (or a start() those set to run runs): no provider
\* event and no timer overwrites it.
C29_FatalStatusSticky ==
    [][(status = "error" /\ error \in FatalMessages
          /\ step'.op \notin CallerOps) => status' = "error"]_vars


\* C30: status becomes listening only from starting or processing and
\* becomes processing only from listening; it never goes from idle or error
\* straight to listening or processing.
C30_StatusGraph ==
    [][/\ (status' = "listening" /\ status # "listening") =>
             status \in {"starting", "processing"}
       /\ (status' = "processing" /\ status # "processing") =>
             status = "listening"]_vars


ActiveStatuses == {"starting", "listening", "processing"}

\* C31: while the hook is mounted, when the page becomes hidden while status
\* is starting, listening or processing, status becomes paused; and when the
\* page becomes visible while status is paused, the session resumes.
C31_PausedWhenHidden ==
    [][(step'.op = "Visibility" /\ mounted /\ ~unmounted) =>
          /\ (~visible' /\ status \in ActiveStatuses) => status' = "paused"
          /\ (visible' /\ status = "paused") =>
                DelayedOf(St') = DelayedOf(St) + 1]_vars

\* the codes onerror has no message for
TransientCodes == {"no-speech", "language-not-supported", "bad-grammar"}

\* the hook's own state (the provider's aside)
HookFields ==
    <<status, error, interimTranscript, recognitionRef, isListeningRef,
      restartAttemptsRef, restartTimeoutRef, orphanTimers, delayedStarts,
      processedTranscriptsRef, lastProcessedTimeRef>>

\* what C32 says of an error event without listening-intent: nothing is
\* scheduled, no-speech changes nothing, another code is surfaced with the
\* generic message that carries it
TransientWithoutIntent ==
    /\ step'.scheduled = 0
    /\ step'.code = "no-speech" => HookFields' = HookFields
    /\ step'.code # "no-speech" =>
          /\ error' = GenericMessage(step'.code)
          /\ error' \notin {GenericMessage(c) : c \in TransientCodes \ {step'.code}}

\* C32: on no-speech and on a code onerror has no case for, with
\* listening-intent set the handler sets no error message and schedules a
\* restart; without it nothing is scheduled, no-speech changes nothing and
\* the other codes are surfaced as the generic message carrying the code.
C32_TransientErrors ==
    [][(step'.op = "ProviderError" /\ step'.code \in TransientCodes /\ ~unmounted) =>
          IF isListeningRef
          THEN error' = error /\ step'.scheduled = 1
          ELSE TransientWithoutIntent]_vars

\* C32, amended: as C32 while the restart counter is below
\* MAX_RESTART_ATTEMPTS; with listening-intent set and the counter at
\* MAX_RESTART_ATTEMPTS the handler schedules nothing, sets status error and
\* the restart-failed message, and resets the counter.
C32_TransientErrorsWithinBudget ==
    [][(step'.op = "ProviderError" /\ step'.code \in TransientCodes /\ ~unmounted) =>
          IF isListeningRef
          THEN IF restartAttemptsRef < MAX_RESTART_ATTEMPTS
               THEN /\ error' = error
                    /\ status' = status
                    /\ step'.scheduled = 1
               ELSE /\ step'.scheduled = 0
                    /\ status' = "error"
                    /\ error' = "ERR_RESTART_FAILED"
                    /\ restartAttemptsRef' = 0
          ELSE TransientWithoutIntent]_vars

\* a code without a case arrived while listening-intent was set and an error
\* message was showing: a restart was scheduled and the message left alone
C32_Witness ==
    /\ step.op = "ProviderError"
    /\ step.code = "bad-grammar"
    /\ isListeningRef
    /\ step.scheduled = 1
    /\ error = "ERR_NETWORK"

\* the same code arrived after stop() and was surfaced
C32_WitnessSurfaced ==
    /\ step.op = "ProviderError"
    /\ step.code = "bad-grammar"
    /\ ~isListeningRef
    /\ step.scheduled = 0
    /\ error = "ERR_GENERIC bad-grammar"

\* C33: a final result whose normalized text was last accepted more than
\* 2 * DEBOUNCE_MS earlier is accepted and handed to the handler, whatever
\* was accepted in between.
C33_NoPermanentSuppression ==
    [][step'.op = "ProviderResult" =>
          \A k \in DOMAIN step'.judged :
              LET n == step'.judged[k].norm
              IN  (acceptedAt[n] > 0 /\ now' - acceptedAt[n] > 2 * DEBOUNCE_MS) =>
                      /\ step'.judged[k].accepted
                      /\ step'.delivered # << >>]_vars

\* C34: the restart counter is within 0..MAX_RESTART_ATTEMPTS in every state,
\* and is 0 right after a call of start(), after every provider start event
\* and after the step that exhausts the budget.
C34_RestartCounter ==
    [][/\ restartAttemptsRef' \in 0..MAX_RESTART_ATTEMPTS
       /\ (step'.op \in {"Start", "DelayedStart"} /\ ~step'.unsupported) =>
              restartAttemptsRef' = 0
       /\ step'.op = "ProviderStart" => restartAttemptsRef' = 0
       /\ (~exhausted /\ exhausted') => restartAttemptsRef' = 0]_vars

\* the budget was exhausted and the caller then started the session again:
\* the counter is 0 while the restart-failed message is still showing
C34_Witness ==
    /\ step.op = "Start"
    /\ ~step.unsupported
    /\ status = "starting"
    /\ error = "ERR_RESTART_FAILED"
    /\ restartAttemptsRef = 0

\* the counter at its ceiling
C34_WitnessCeiling == restartAttemptsRef = MAX_RESTART_ATTEMPTS

\* the step that exhausts the budget
C34_WitnessExhausted ==
    /\ exhausted
    /\ status = "error"
    /\ restartAttemptsRef = 0

\* C35: for a target of more than three tokens, countOccurrences returns 0
\* or 1, however often the transcript repeats the phrase, and returns 1
\* exactly when the tokens of the target that contain, or are contained in,
\* a token of the transcript are strictly more than 0.6 of the target's
\* tokens.
C35_LongPhraseRule ==
    (call.pc = "done" /\ Len(TokensOf(call.target)) > 3) =>
        /\ call.result \in {0, 1}
        /\ call.result = 1 <=>
              10 * Cardinality(SharedTokens(call.text, call.target))
                  > 6 * Len(TokensOf(call.target))

\* a transcript that says a target of four tokens MaxReps times counted once
C35_Witness ==
    /\ call.pc = "done"
    /\ Len(TokensOf(call.target)) = 4
    /\ call.text = Repeat(call.target, MaxReps)
    /\ call.result = 1

\* a transcript sharing exactly 3 of a target's 5 tokens counted 0
C35_WitnessAtThreshold ==
    /\ call.pc = "done"
    /\ Len(TokensOf(call.target)) = 5
    /\ Cardinality(SharedTokens(call.text, call.target)) = 3
    /\ call.result = 0

\* the matches a scan finds in each transcript of a sequence, added up
RECURSIVE MatchesIn(_, _)
MatchesIn(delivered, phrase) ==
    IF delivered = << >> THEN 0
    ELSE ScanCount(normalizeArabic(Head(delivered).transcript),
                   normalizeArabic(phrase))
            + MatchesIn(Tail(delivered), phrase)

\* C36: a result event adds to the session count and to the lifetime total
\* the occurrences of the selected phrase in each transcript it hands to the
\* handler, and nothing else: an event whose entries are all interim,
\* empty or discarded as duplicates leaves both counts as they were.
C36_CountDelta ==
    [][step'.op = "ProviderResult" =>
          LET delta == MatchesIn(step'.delivered, selectedDhikr)
          IN  /\ sessionCount' = sessionCount + delta
              /\ totalCount' = totalCount + delta
              /\ (\A k \in DOMAIN step'.judged : ~step'.judged[k].accepted) =>
                     /\ sessionCount' = sessionCount
                     /\ totalCount' = totalCount]_vars

\* an event of two finals, one saying the selected phrase twice and one
\* saying another phrase, added 2 to a session count that was reset before
C36_Witness ==
    /\ step.op = "ProviderResult"
    /\ Len(step.delivered) = 2
    /\ selectedDhikr = DefaultDhikr
    /\ MatchesIn(step.delivered, selectedDhikr) = 2
    /\ sessionCount = 2
    /\ totalCount = 3

\* an event whose only final was discarded as a duplicate: the counts stay
C36_WitnessDuplicate ==
    /\ step.op = "ProviderResult"
    /\ step.judged # << >>
    /\ \A k \in DOMAIN step.judged : ~step.judged[k].accepted
    /\ sessionCount > 0

====
